---- MODULE Spec2Model ----
(***************************************************************************)
(* Model of MusicScripts/Youtubeaudio/audiofeatures.py: the interactive    *)
(* pipeline download_audio -> analyze_audio -> extract_harmony -> JSON.    *)
(*                                                                         *)
(* Conventions.  A file name is a sequence of tokens (single characters    *)
(* and one extension token); a path is [dir, name].  An optional string    *)
(* (Python None or str) is <<>> or <<s>>.  Frequencies and magnitudes are  *)
(* integers in hundredths (0.1 is 10).  The filesystem is a set of file    *)
(* records, each tagged with the run that wrote it.                        *)
(***************************************************************************)
EXTENDS Integers, Sequences, FiniteSets, TLC

VARIABLES
    pc,               \* position in the script
    run,              \* which invocation of the script this is
    failed_stage,     \* stage whose uncaught exception ended the run, or "none"
    trace,            \* stages this run has completed, in order
    fs,               \* files on disk
    dirs,             \* directories on disk
    url,              \* the video the URL resolves to (its title)
    start_time,       \* main: start_time (optional string)
    end_time,         \* main: end_time (optional string)
    filename,         \* download_audio: filename
    output_path,      \* download_audio: output_path
    mp3_filename,     \* download_audio: mp3_filename
    mp3_output_path,  \* download_audio: mp3_output_path
    clip_output_path, \* download_audio: clip_output_path
    ffmpeg_log,       \* subprocess.run invocations of this run
    audio_path,       \* main: audio_path
    figure,           \* panels drawn in the current pyplot figure
    fig_open,         \* a pyplot figure is open
    panel,            \* next subplot index of analyze_audio
    acoustic_results, \* main: acoustic_results
    harmony_src,      \* extract_harmony: file_path
    piptrack,         \* extract_harmony: pitches/magnitudes, frame by frame
    kept,             \* extract_harmony: the per-frame arrays given to np.concatenate
    midi_pitches,     \* extract_harmony: midi_pitches
    analyzed_chords,  \* extract_harmony: analyzed_chords
    harmony_results,  \* main: harmony_results
    results,          \* main: results
    json_writes       \* completed json.dump calls of this run

vars == <<pc, run, failed_stage, trace, fs, dirs, url, start_time, end_time,
          filename, output_path, mp3_filename, mp3_output_path,
          clip_output_path, ffmpeg_log, audio_path, figure, fig_open, panel,
          acoustic_results, harmony_src, piptrack, kept, midi_pitches,
          analyzed_chords, harmony_results, results, json_writes>>

fetchLocals == <<filename, output_path, mp3_filename, mp3_output_path,
                 clip_output_path>>
plotVars    == <<figure, fig_open, panel>>
harmonyVars == <<harmony_src, piptrack, kept, midi_pitches, analyzed_chords>>
inputVars   == <<url, start_time, end_time>>

----------------------------------------------------------------------------
(* Bounds of the model *)

MaxRuns   == 2   \* invocations of the script in one working directory
MaxChords == 11  \* chords the grouping routine may emit (SpecChords)

(* Program constants *)

ChordLimit     == 10   \* analyzed_chords[:10]
PitchThreshold == 10   \* pitch_threshold = 0.1, in hundredths
NumPanels      == 4    \* plt.subplot(4, 1, k)

----------------------------------------------------------------------------
(* Values the environment supplies *)

Titles == { <<"a", " ", "b">>, <<"a", "b">>, <<"c">> }

TimeInputs == { "x", "X", "", "10" }

ChordSet ==
    { [Chord |-> "major triad", Root |-> "C", Quality |-> "major"],
      [Chord |-> "minor triad", Root |-> "A", Quality |-> "minor"] }

\* One spectrogram bin of one frame: piptrack gives pitch 0 and magnitude 0
\* where there is no peak, and a pitch of at least fmin where there is one.
Bins ==
    { [pitch |-> 0, magnitude |-> 0] } \cup
    { [pitch |-> 22000, magnitude |-> m] : m \in {5, 10, 20} } \cup
    { [pitch |-> 88000, magnitude |-> 20] }

NoPath == [dir |-> "", name |-> <<>>]
NoFeatures == [of |-> NoPath]
NoReport == [Acoustic_Features |-> NoFeatures, Harmony_Analysis |-> <<>>]

----------------------------------------------------------------------------
(* Strings and paths *)

Lower(s) == IF s = "X" THEN "x" ELSE s

\* main: x if x.lower() != 'x' else None
ParseTime(s) == IF Lower(s) # "x" THEN <<s>> ELSE <<>>

\* Python truthiness of an optional string
TruthyNotNone(t) == t # <<>>
Truthy(t) == t # <<>> /\ t[1] # ""

NotSpace(c) == c # " "
ReplaceSpaces(name) == SelectSeq(name, NotSpace)

DefaultFilename(title) == Append(title, ".m4a")

\* os.path.splitext(name)[0]
SplitextStem(name) ==
    IF name # <<>> /\ name[Len(name)] \in {".m4a", ".mp3", ".png", ".json"}
    THEN SubSeq(name, 1, Len(name) - 1) ELSE name

Mp3Filename(name) == Append(SplitextStem(name), ".mp3")

Join(d, name) == [dir |-> d, name |-> name]

ClipName(name) == <<"clip_">> \o name

----------------------------------------------------------------------------
(* Filesystem *)

File(p, r, c) == [dir |-> p.dir, name |-> p.name, run |-> r, content |-> c]

At(files, p) == { f \in files : f.dir = p.dir /\ f.name = p.name }

Exists(files, p) == At(files, p) # {}

InDir(files, d) == { f \in files : f.dir = d }

WriteFile(files, p, r, c) == (files \ At(files, p)) \cup { File(p, r, c) }

RemoveNothing(files, p) == files
RemoveFile(files, p) == files \ At(files, p)

\* shutil.rmtree(d) if it exists, then os.makedirs(d)
KeepDir(files, d) == files
RecreateDir(files, d) == files \ InDir(files, d)

----------------------------------------------------------------------------
(* analyze_audio: the figure and its saved images *)

PanelTitle(k) ==
    CASE k = 1 -> "Waveform"
      [] k = 2 -> "Spectral Centroid"
      [] k = 3 -> "MFCCs"
      [] OTHER -> "Chroma Features"

PlotFile(k) ==
    CASE k = 1 -> <<"waveform", ".png">>
      [] k = 2 -> <<"spectral_centroid", ".png">>
      [] k = 3 -> <<"mfccs", ".png">>
      [] OTHER -> <<"chroma_features", ".png">>

PlotPathSame(k) == Join("analysis_results", PlotFile(1))
PlotPath(k) == Join("analysis_results", PlotFile(k))

\* plt.subplot(4, 1, k) and the drawing calls add panel k to the figure
DrawPanel(fig, k) == fig \cup { PanelTitle(k) }

\* plt.savefig renders the whole current figure
SaveFigLastOnly(fig, k) == { PanelTitle(k) }
SaveFig(fig, k) == fig

\* the scalar and vector features librosa computes from one file
Features(p) == [of |-> p]

----------------------------------------------------------------------------
(* extract_harmony: pure parts *)

\* pitches.T[i][pitches.T[i] > pitch_threshold]
AbovePitchThreshold(b) == b.pitch > PitchThreshold
KeepOfFrame(frame) == SelectSeq(frame, AbovePitchThreshold)

KeepAll(track) == [i \in 1..Len(track) |-> KeepOfFrame(track[i])]

RECURSIVE Concatenate(_)
Concatenate(arrays) ==
    IF arrays = <<>> THEN <<>>
    ELSE Head(arrays) \o Concatenate(Tail(arrays))

\* librosa.hz_to_midi: 12 * log2(f / 440) + 69, in hundredths, for the
\* frequencies that are whole octaves from 440 Hz
RECURSIVE HzToMidi(_)
HzToMidi(f) ==
    IF f = 44000 THEN 6900
    ELSE IF f > 44000 THEN HzToMidi(f \div 2) + 1200
    ELSE HzToMidi(f * 2) - 1200

\* int(p)
IntOf(p) == p \div 100

MidiPitchesOrMiddleC(arrays) ==
    LET d == Concatenate(arrays)
    IN IF d = <<>> THEN <<60>>
       ELSE [i \in 1..Len(d) |-> IntOf(HzToMidi(d[i].pitch))]

\* No surviving frequency is NaN after conversion (all are positive), so the
\* isnan filter of line 104 keeps every value.
MidiPitches(arrays) ==
    LET d == Concatenate(arrays)
    IN [i \in 1..Len(d) |-> IntOf(HzToMidi(d[i].pitch))]

\* chordify().flatten().getElementsByClass(Chord): the chords the grouping
\* routine may emit for these notes, at most n of them; none without notes
SeqsUpTo(S, n) == UNION { [1..k -> S] : k \in 0..n }
ChordifyOut(notes, n) == IF notes = <<>> THEN { <<>> } ELSE SeqsUpTo(ChordSet, n)

Min(a, b) == IF a < b THEN a ELSE b

\* analyzed_chords[:10]
NoTruncate(chords) == chords
Truncate(chords) == SubSeq(chords, 1, Min(Len(chords), ChordLimit))

\* main: results = {"Acoustic_Features": ..., "Harmony_Analysis": ...}
ReportDropsFeatures(a, h) == [Acoustic_Features |-> NoFeatures, Harmony_Analysis |-> h]
Report(a, h) == [Acoustic_Features |-> a, Harmony_Analysis |-> h]

JsonPath == Join("analysis_results", <<"analysis_results", ".json">>)

----------------------------------------------------------------------------
(* The script *)

Init ==
    /\ pc = "prompt"
    /\ run = 1
    /\ failed_stage = "none"
    /\ trace = <<>>
    /\ fs = {}
    /\ dirs = {}
    /\ url = <<>>
    /\ start_time = <<>>
    /\ end_time = <<>>
    /\ filename = <<>>
    /\ output_path = NoPath
    /\ mp3_filename = <<>>
    /\ mp3_output_path = NoPath
    /\ clip_output_path = NoPath
    /\ ffmpeg_log = <<>>
    /\ audio_path = NoPath
    /\ figure = {}
    /\ fig_open = FALSE
    /\ panel = 1
    /\ acoustic_results = NoFeatures
    /\ harmony_src = NoPath
    /\ piptrack = <<>>
    /\ kept = <<>>
    /\ midi_pitches = <<>>
    /\ analyzed_chords = <<>>
    /\ harmony_results = <<>>
    /\ results = NoReport
    /\ json_writes = 0

\* an uncaught exception: the traceback is printed and the process ends
Raise(stage) ==
    /\ pc' = "failed"
    /\ failed_stage' = stage

\* lines 120-124: the three prompts
Prompt ==
    /\ pc = "prompt"
    /\ \E t \in Titles, si \in TimeInputs, ei \in TimeInputs :
          /\ url' = t
          /\ start_time' = ParseTime(si)
          /\ end_time' = ParseTime(ei)
    /\ pc' = "resolve"
    /\ UNCHANGED <<run, failed_stage, trace, fs, dirs, fetchLocals, ffmpeg_log,
                   audio_path, plotVars, acoustic_results, harmonyVars,
                   harmony_results, results, json_writes>>

\* lines 13-19: YouTube(url), get_audio_only, filename
Resolve ==
    /\ pc = "resolve"
    /\ filename' = ReplaceSpaces(DefaultFilename(url))
    /\ pc' = "wipe"
    /\ UNCHANGED <<run, failed_stage, trace, fs, dirs, inputVars, output_path,
                   mp3_filename, mp3_output_path, clip_output_path, ffmpeg_log,
                   audio_path, plotVars, acoustic_results, harmonyVars,
                   harmony_results, results, json_writes>>

\* lines 13-17 raise (no network, no such video)
ResolveFails ==
    /\ pc = "resolve"
    /\ Raise("fetch")
    /\ UNCHANGED <<run, trace, fs, dirs, inputVars, fetchLocals, ffmpeg_log,
                   audio_path, plotVars, acoustic_results, harmonyVars,
                   harmony_results, results, json_writes>>

\* lines 22-24
Wipe ==
    /\ pc = "wipe"
    /\ fs' = RecreateDir(fs, "ytfolder")
    /\ dirs' = dirs \cup { "ytfolder" }
    /\ pc' = "download"
    /\ UNCHANGED <<run, failed_stage, trace, inputVars, fetchLocals, ffmpeg_log,
                   audio_path, plotVars, acoustic_results, harmonyVars,
                   harmony_results, results, json_writes>>

\* line 27: ys.download() into the working directory
Download ==
    /\ pc = "download"
    /\ output_path' = Join("cwd", DefaultFilename(url))
    /\ fs' = WriteFile(fs, output_path', run, { "audio" })
    /\ pc' = "convert"
    /\ UNCHANGED <<run, failed_stage, trace, dirs, inputVars, filename,
                   mp3_filename, mp3_output_path, clip_output_path, ffmpeg_log,
                   audio_path, plotVars, acoustic_results, harmonyVars,
                   harmony_results, results, json_writes>>

\* line 27 raises (the connection drops)
DownloadFails ==
    /\ pc = "download"
    /\ Raise("fetch")
    /\ UNCHANGED <<run, trace, fs, dirs, inputVars, fetchLocals, ffmpeg_log,
                   audio_path, plotVars, acoustic_results, harmonyVars,
                   harmony_results, results, json_writes>>

Invocation(op, ss, to, in, out, rc) ==
    [op |-> op, ss |-> ss, to |-> to, input |-> in, output |-> out, rc |-> rc]

\* lines 31-34: subprocess.run(['ffmpeg', '-i', ...]) without check=True.
\* rc = 0: the transcoder wrote its output; rc = 1: it exited with an error
\* and wrote nothing, and subprocess.run returns normally.
Convert ==
    /\ pc = "convert"
    /\ mp3_filename' = Mp3Filename(filename)
    /\ mp3_output_path' = Join("ytfolder", mp3_filename')
    /\ \E rc \in {0, 1} :
          /\ ffmpeg_log' = Append(ffmpeg_log,
                Invocation("convert", <<>>, <<>>, output_path, mp3_output_path', rc))
          /\ fs' = IF rc = 0 THEN WriteFile(fs, mp3_output_path', run, { "audio" })
                   ELSE fs
    /\ pc' = "trim"
    /\ UNCHANGED <<run, failed_stage, trace, dirs, inputVars, filename,
                   output_path, clip_output_path, audio_path, plotVars,
                   acoustic_results, harmonyVars, harmony_results, results,
                   json_writes>>

\* line 33 raises FileNotFoundError (no ffmpeg executable)
ConvertNoTool ==
    /\ pc = "convert"
    /\ mp3_filename' = Mp3Filename(filename)
    /\ mp3_output_path' = Join("ytfolder", mp3_filename')
    /\ Raise("fetch")
    /\ UNCHANGED <<run, trace, fs, dirs, inputVars, filename, output_path,
                   clip_output_path, ffmpeg_log, audio_path, plotVars,
                   acoustic_results, harmonyVars, harmony_results, results,
                   json_writes>>

\* line 38: if start_time and end_time
TrimWanted(s, e) == Truthy(s) /\ Truthy(e)

\* lines 37-41 with the condition true: the second transcoder run.  It can
\* exit 0 only if its input exists.
Trim ==
    /\ pc = "trim"
    /\ TrimWanted(start_time, end_time)
    /\ clip_output_path' = Join("ytfolder", ClipName(mp3_filename))
    /\ \E rc \in {0, 1} :
          /\ rc = 0 => Exists(fs, mp3_output_path)
          /\ ffmpeg_log' = Append(ffmpeg_log,
                Invocation("trim", start_time, end_time, mp3_output_path,
                           clip_output_path', rc))
          /\ fs' = IF rc = 0 THEN WriteFile(fs, clip_output_path', run, { "audio" })
                   ELSE fs
    /\ pc' = "remove"
    /\ UNCHANGED <<run, failed_stage, trace, dirs, inputVars, filename,
                   output_path, mp3_filename, mp3_output_path, audio_path,
                   plotVars, acoustic_results, harmonyVars, harmony_results,
                   results, json_writes>>

\* lines 37-38 with the condition false
NoTrim ==
    /\ pc = "trim"
    /\ ~TrimWanted(start_time, end_time)
    /\ clip_output_path' = mp3_output_path
    /\ pc' = "remove"
    /\ UNCHANGED <<run, failed_stage, trace, fs, dirs, inputVars, filename,
                   output_path, mp3_filename, mp3_output_path, ffmpeg_log,
                   audio_path, plotVars, acoustic_results, harmonyVars,
                   harmony_results, results, json_writes>>

\* lines 43-44 and 126: os.remove(output_path); return clip_output_path
Remove ==
    /\ pc = "remove"
    /\ fs' = RemoveFile(fs, output_path)
    /\ audio_path' = clip_output_path
    /\ trace' = Append(trace, "fetch")
    /\ pc' = "a_load"
    /\ UNCHANGED <<run, failed_stage, dirs, inputVars, fetchLocals, ffmpeg_log,
                   plotVars, acoustic_results, harmonyVars, harmony_results,
                   results, json_writes>>

\* lines 47-64: librosa.load and the feature computations
AnalyzeLoad ==
    /\ pc = "a_load"
    /\ Exists(fs, audio_path)
    /\ pc' = "a_figure"
    /\ UNCHANGED <<run, failed_stage, trace, fs, dirs, inputVars, fetchLocals,
                   ffmpeg_log, audio_path, plotVars, acoustic_results,
                   harmonyVars, harmony_results, results, json_writes>>

\* line 47 raises: the file is missing or cannot be decoded
AnalyzeLoadFails ==
    /\ pc = "a_load"
    /\ Raise("acoustic")
    /\ UNCHANGED <<run, trace, fs, dirs, inputVars, fetchLocals, ffmpeg_log,
                   audio_path, plotVars, acoustic_results, harmonyVars,
                   harmony_results, results, json_writes>>

\* lines 67-70: os.makedirs(exist_ok=True); plt.figure()
AnalyzeFigure ==
    /\ pc = "a_figure"
    /\ dirs' = dirs \cup { "analysis_results" }
    /\ figure' = {}
    /\ fig_open' = TRUE
    /\ panel' = 1
    /\ pc' = "panel"
    /\ UNCHANGED <<run, failed_stage, trace, fs, inputVars, fetchLocals,
                   ffmpeg_log, audio_path, acoustic_results, harmonyVars,
                   harmony_results, results, json_writes>>

\* lines 71-74, 76-79, 81-85, 87-93: draw panel k, then savefig
Panel ==
    /\ pc = "panel"
    /\ figure' = DrawPanel(figure, panel)
    /\ fs' = WriteFile(fs, PlotPath(panel), run, SaveFig(figure', panel))
    /\ panel' = panel + 1
    /\ pc' = IF panel = NumPanels THEN "a_close" ELSE "panel"
    /\ UNCHANGED <<run, failed_stage, trace, dirs, inputVars, fetchLocals,
                   ffmpeg_log, audio_path, fig_open, acoustic_results,
                   harmonyVars, harmony_results, results, json_writes>>

\* a drawing or feature call of panel k raises before its savefig
PanelFails ==
    /\ pc = "panel"
    /\ Raise("acoustic")
    /\ UNCHANGED <<run, trace, fs, dirs, inputVars, fetchLocals, ffmpeg_log,
                   audio_path, plotVars, acoustic_results, harmonyVars,
                   harmony_results, results, json_writes>>

\* lines 94-96 and 129: plt.close(); return results
AnalyzeClose ==
    /\ pc = "a_close"
    /\ figure' = {}
    /\ fig_open' = FALSE
    /\ acoustic_results' = Features(audio_path)
    /\ trace' = Append(trace, "acoustic")
    /\ pc' = "h_load"
    /\ UNCHANGED <<run, failed_stage, fs, dirs, inputVars, fetchLocals,
                   ffmpeg_log, audio_path, panel, harmonyVars, harmony_results,
                   results, json_writes>>

\* lines 130, 99-100: librosa.load and hpss
HarmonyLoad ==
    /\ pc = "h_load"
    /\ Exists(fs, audio_path)
    /\ harmony_src' = audio_path
    /\ pc' = "h_track"
    /\ UNCHANGED <<run, failed_stage, trace, fs, dirs, inputVars, fetchLocals,
                   ffmpeg_log, audio_path, plotVars, acoustic_results, piptrack,
                   kept, midi_pitches, analyzed_chords, harmony_results, results,
                   json_writes>>

\* lines 99-101 raise (the file cannot be decoded, memory runs out)
HarmonyLoadFails ==
    /\ pc = "h_load"
    /\ harmony_src' = audio_path
    /\ Raise("harmony")
    /\ UNCHANGED <<run, trace, fs, dirs, inputVars, fetchLocals, ffmpeg_log,
                   audio_path, plotVars, acoustic_results, piptrack, kept,
                   midi_pitches, analyzed_chords, harmony_results, results,
                   json_writes>>

\* line 101: librosa.piptrack returns one of the outputs in S
HarmonyTrack(S) ==
    /\ pc = "h_track"
    /\ piptrack' \in S
    /\ pc' = "h_filter"
    /\ UNCHANGED <<run, failed_stage, trace, fs, dirs, inputVars, fetchLocals,
                   ffmpeg_log, audio_path, plotVars, acoustic_results,
                   harmony_src, kept, midi_pitches, analyzed_chords,
                   harmony_results, results, json_writes>>

\* lines 102-105
HarmonyFilter ==
    /\ pc = "h_filter"
    /\ kept' = KeepAll(piptrack)
    /\ midi_pitches' = MidiPitches(kept')
    /\ pc' = "h_chordify"
    /\ UNCHANGED <<run, failed_stage, trace, fs, dirs, inputVars, fetchLocals,
                   ffmpeg_log, audio_path, plotVars, acoustic_results,
                   harmony_src, piptrack, analyzed_chords, harmony_results,
                   results, json_writes>>

\* lines 107-114: the grouping routine emits at most n chords
HarmonyChordify(n) ==
    /\ pc = "h_chordify"
    /\ analyzed_chords' \in ChordifyOut(midi_pitches, n)
    /\ pc' = "h_return"
    /\ UNCHANGED <<run, failed_stage, trace, fs, dirs, inputVars, fetchLocals,
                   ffmpeg_log, audio_path, plotVars, acoustic_results,
                   harmony_src, piptrack, kept, midi_pitches, harmony_results,
                   results, json_writes>>

\* lines 116 and 130
HarmonyReturn ==
    /\ pc = "h_return"
    /\ harmony_results' = Truncate(analyzed_chords)
    /\ trace' = Append(trace, "harmony")
    /\ pc' = "write_open"
    /\ UNCHANGED <<run, failed_stage, fs, dirs, inputVars, fetchLocals,
                   ffmpeg_log, audio_path, plotVars, acoustic_results,
                   harmonyVars, results, json_writes>>

\* lines 133-135: build results; open(..., 'w') creates or truncates the file
WriteOpen ==
    /\ pc = "write_open"
    /\ results' = Report(acoustic_results, harmony_results)
    /\ fs' = WriteFile(fs, JsonPath, run, {})
    /\ pc' = "write_dump"
    /\ UNCHANGED <<run, failed_stage, trace, dirs, inputVars, fetchLocals,
                   ffmpeg_log, audio_path, plotVars, acoustic_results,
                   harmonyVars, harmony_results, json_writes>>

\* line 136: json.dump writes the document
WriteDump ==
    /\ pc = "write_dump"
    /\ fs' = WriteFile(fs, JsonPath, run, DOMAIN results)
    /\ json_writes' = json_writes + 1
    /\ trace' = Append(trace, "write")
    /\ pc' = "done"
    /\ UNCHANGED <<run, failed_stage, dirs, inputVars, fetchLocals, ffmpeg_log,
                   audio_path, plotVars, acoustic_results, harmonyVars,
                   harmony_results, results>>

\* line 136 raises (the disk is full)
WriteDumpFails ==
    /\ pc = "write_dump"
    /\ Raise("write")
    /\ UNCHANGED <<run, trace, fs, dirs, inputVars, fetchLocals, ffmpeg_log,
                   audio_path, plotVars, acoustic_results, harmonyVars,
                   harmony_results, results, json_writes>>

\* the operator starts the script again in the same working directory
Rerun ==
    /\ pc \in { "done", "failed" }
    /\ run < MaxRuns
    /\ run' = run + 1
    /\ pc' = "prompt"
    /\ failed_stage' = "none"
    /\ trace' = <<>>
    /\ url' = <<>>
    /\ start_time' = <<>>
    /\ end_time' = <<>>
    /\ filename' = <<>>
    /\ output_path' = NoPath
    /\ mp3_filename' = <<>>
    /\ mp3_output_path' = NoPath
    /\ clip_output_path' = NoPath
    /\ ffmpeg_log' = <<>>
    /\ audio_path' = NoPath
    /\ figure' = {}
    /\ fig_open' = FALSE
    /\ panel' = 1
    /\ acoustic_results' = NoFeatures
    /\ harmony_src' = NoPath
    /\ piptrack' = <<>>
    /\ kept' = <<>>
    /\ midi_pitches' = <<>>
    /\ analyzed_chords' = <<>>
    /\ harmony_results' = <<>>
    /\ results' = NoReport
    /\ json_writes' = 0
    /\ UNCHANGED <<fs, dirs>>

\* piptrack outputs and chord emissions drawn inside the whole script: one
\* frame of two bins; no chord or one chord
OneFrameTracks == { << <<a, b>> >> : a \in Bins, b \in Bins }

HarmonyTrackRun == HarmonyTrack(OneFrameTracks)
HarmonyChordifyRun == HarmonyChordify(1)

Next ==
    \/ Prompt
    \/ Resolve
    \/ ResolveFails
    \/ Wipe
    \/ Download
    \/ DownloadFails
    \/ Convert
    \/ ConvertNoTool
    \/ Trim
    \/ NoTrim
    \/ Remove
    \/ AnalyzeLoad
    \/ AnalyzeLoadFails
    \/ AnalyzeFigure
    \/ Panel
    \/ PanelFails
    \/ AnalyzeClose
    \/ HarmonyLoad
    \/ HarmonyLoadFails
    \/ HarmonyTrackRun
    \/ HarmonyFilter
    \/ HarmonyChordifyRun
    \/ HarmonyReturn
    \/ WriteOpen
    \/ WriteDump
    \/ WriteDumpFails
    \/ Rerun

Spec == Init /\ [][Next]_vars

----------------------------------------------------------------------------
(* extract_harmony on its own, entered from a state the script reaches: the *)
(* first run, title "a b", no trim, every tool succeeded, plots saved.      *)

EntryMp3 == Join("ytfolder", <<"a", "b", ".mp3">>)

InitHarmony ==
    /\ pc = "h_load"
    /\ run = 1
    /\ failed_stage = "none"
    /\ trace = <<"fetch", "acoustic">>
    /\ fs = { File(EntryMp3, 1, { "audio" }) } \cup
            { File(PlotPath(k), 1, { PanelTitle(j) : j \in 1..k }) : k \in 1..NumPanels }
    /\ dirs = { "ytfolder", "analysis_results" }
    /\ url = <<"a", " ", "b">>
    /\ start_time = <<>>
    /\ end_time = <<>>
    /\ filename = <<"a", "b", ".m4a">>
    /\ output_path = Join("cwd", <<"a", " ", "b", ".m4a">>)
    /\ mp3_filename = <<"a", "b", ".mp3">>
    /\ mp3_output_path = EntryMp3
    /\ clip_output_path = EntryMp3
    /\ ffmpeg_log = << Invocation("convert", <<>>, <<>>,
                          Join("cwd", <<"a", " ", "b", ".m4a">>), EntryMp3, 0) >>
    /\ audio_path = EntryMp3
    /\ figure = {}
    /\ fig_open = FALSE
    /\ panel = NumPanels + 1
    /\ acoustic_results = Features(EntryMp3)
    /\ harmony_src = NoPath
    /\ piptrack = <<>>
    /\ kept = <<>>
    /\ midi_pitches = <<>>
    /\ analyzed_chords = <<>>
    /\ harmony_results = <<>>
    /\ results = NoReport
    /\ json_writes = 0

HarmonyChordifyAll == HarmonyChordify(MaxChords)

NextChords ==
    \/ HarmonyLoad
    \/ HarmonyLoadFails
    \/ HarmonyTrackRun
    \/ HarmonyFilter
    \/ HarmonyChordifyAll
    \/ HarmonyReturn

SpecChords == InitHarmony /\ [][NextChords]_vars

\* InitHarmony is a state of Spec (TLC refutes this under Spec)
HarmonyEntryUnreachable == ~InitHarmony

----------------------------------------------------------------------------
(* Properties *)

InTrace(stage) == \E i \in 1..Len(trace) : trace[i] = stage

\* download_audio has returned in this run
Returned == InTrace("fetch")

\* every transcoder invocation of this run exited 0
ToolsSucceeded == \A i \in 1..Len(ffmpeg_log) : ffmpeg_log[i].rc = 0

TrimCalls == { i \in 1..Len(ffmpeg_log) : ffmpeg_log[i].op = "trim" }

\* the names download_audio is to produce for the video, written out
ExpectedMp3 ==
    IF url = <<"c">> THEN <<"c", ".mp3">> ELSE <<"a", "b", ".mp3">>
ExpectedClip ==
    IF url = <<"c">> THEN <<"clip_", "c", ".mp3">> ELSE <<"clip_", "a", "b", ".mp3">>
ExpectedDownload ==
    IF url = <<"c">> THEN <<"c", ".m4a">>
    ELSE IF url = <<"a", "b">> THEN <<"a", "b", ".m4a">>
    ELSE <<"a", " ", "b", ".m4a">>

FullPath == [dir |-> "ytfolder", name |-> ExpectedMp3]
ClipPath == [dir |-> "ytfolder", name |-> ExpectedClip]
DownloadPath == [dir |-> "cwd", name |-> ExpectedDownload]

Supplied(t) == t # <<>>
NonEmptyTime(t) == t # <<>> /\ t # <<"">>

TrimmedOnceWithGivenTimes ==
    /\ Cardinality(TrimCalls) = 1
    /\ \A i \in TrimCalls :
          /\ ffmpeg_log[i].ss = start_time
          /\ ffmpeg_log[i].to = end_time
          /\ ffmpeg_log[i].input = FullPath
          /\ ffmpeg_log[i].output = ClipPath
    /\ audio_path = ClipPath
    /\ ClipPath # FullPath

NotTrimmed ==
    /\ TrimCalls = {}
    /\ audio_path = FullPath

\* C1 as stated: after a successful download_audio, both times omitted or
\* only one supplied gives no trim and the full converted path; both
\* supplied, whatever strings they are, gives exactly one trim with the given
\* -ss/-to and the clip_ path.
C1_AnySuppliedStringTrims ==
    (Returned /\ ToolsSucceeded) =>
        IF Supplied(start_time) /\ Supplied(end_time)
        THEN TrimmedOnceWithGivenTimes
        ELSE NotTrimmed

\* C1 amended: the same, with "supplied" meaning a non-empty string; an empty
\* string (Enter at the prompt) counts as omitted.
C1_NonEmptyTimesTrim ==
    (Returned /\ ToolsSucceeded) =>
        IF NonEmptyTime(start_time) /\ NonEmptyTime(end_time)
        THEN TrimmedOnceWithGivenTimes
        ELSE NotTrimmed

C1_Witness ==
    /\ Returned /\ ToolsSucceeded
    /\ start_time = <<"10">> /\ end_time = <<"10">>
    /\ Cardinality(TrimCalls) = 1
    /\ audio_path = ClipPath

\* the case C1 as stated gets wrong: Enter at one prompt, a time at the other
C1_EmptyStringWitness ==
    /\ Returned /\ ToolsSucceeded
    /\ start_time = <<"">> /\ end_time = <<"10">>
    /\ TrimCalls = {}

OfThisRun(p) == \E f \in fs : f.dir = p.dir /\ f.name = p.name /\ f.run = run

OnDisk(p) == \E f \in fs : f.dir = p.dir /\ f.name = p.name

HasCall(op) == \E i \in 1..Len(ffmpeg_log) : ffmpeg_log[i].op = op

\* the download of this run has been written (line 27 returned)
Downloaded == output_path # NoPath

\* C2: after a successful download_audio the download file is gone, the
\* converted file (and the clip, when a trim ran) is in ytfolder, and the
\* download file is never gone before the conversion and the trim have run.
C2_DownloadDeletedAfterUse ==
    /\ (Returned /\ ToolsSucceeded) =>
          /\ ~OnDisk(DownloadPath)
          /\ OfThisRun(FullPath)
          /\ (NonEmptyTime(start_time) /\ NonEmptyTime(end_time)) => OfThisRun(ClipPath)
    /\ (Downloaded /\ ~OnDisk(DownloadPath)) =>
          /\ HasCall("convert")
          /\ (NonEmptyTime(start_time) /\ NonEmptyTime(end_time)) => HasCall("trim")

C2_Witness ==
    /\ Returned /\ ToolsSucceeded
    /\ NonEmptyTime(start_time) /\ NonEmptyTime(end_time)
    /\ ~OnDisk(DownloadPath)
    /\ OfThisRun(FullPath) /\ OfThisRun(ClipPath)

\* lines 22-24 have run in this run
Wiped == pc \notin { "prompt", "resolve", "wipe" } /\ filename # <<>>

YtFiles == { f \in fs : f.dir = "ytfolder" }

ProducedPaths ==
    { ffmpeg_log[i].output : i \in { j \in 1..Len(ffmpeg_log) : ffmpeg_log[j].rc = 0 } }

C4_FirstTenChords ==
    InTrace("harmony") =>
        /\ Len(harmony_results) <= 10
        /\ Len(harmony_results) =
              (IF Len(analyzed_chords) < 10 THEN Len(analyzed_chords) ELSE 10)
        /\ \A i \in 1..Len(harmony_results) :
              /\ harmony_results[i] = analyzed_chords[i]
              /\ DOMAIN harmony_results[i] = { "Chord", "Root", "Quality" }

C4_Witness ==
    /\ InTrace("harmony")
    /\ Len(analyzed_chords) = 11
    /\ Len(harmony_results) = 10
    /\ analyzed_chords[1] # analyzed_chords[11]

JsonOfThisRun == { f \in fs : f.dir = "analysis_results"
                              /\ f.name = <<"analysis_results", ".json">>
                              /\ f.run = run }

\* C5: the JSON document is written once, after fetch, acoustic analysis and
\* harmony analysis in that order, with exactly the keys Acoustic_Features
\* and Harmony_Analysis, holding what both analyzers computed from the one
\* path download_audio returned.
C5_OneReportAfterAllStages ==
    /\ json_writes <= 1
    /\ (json_writes = 1) <=> (pc = "done")
    /\ JsonOfThisRun # {} => SubSeq(trace, 1, 3) = <<"fetch", "acoustic", "harmony">>
    /\ pc = "done" =>
          /\ trace = <<"fetch", "acoustic", "harmony", "write">>
          /\ \A f \in JsonOfThisRun :
                f.content = { "Acoustic_Features", "Harmony_Analysis" }
          /\ JsonOfThisRun # {}
          /\ DOMAIN results = { "Acoustic_Features", "Harmony_Analysis" }
          /\ results.Acoustic_Features = acoustic_results
          /\ results.Harmony_Analysis = harmony_results
          /\ acoustic_results = [of |-> audio_path]
          /\ harmony_src = audio_path
          /\ audio_path = clip_output_path
          /\ audio_path # NoPath

C5_Witness ==
    /\ pc = "done"
    /\ json_writes = 1
    /\ run = 2
    /\ harmony_results # <<>>
    /\ audio_path = ClipPath

\* C6 as stated: once a transcoder invocation has exited with an error, the
\* original download is not deleted and no path is returned.
C6_FailedToolAborts ==
    (\E i \in 1..Len(ffmpeg_log) : ffmpeg_log[i].rc # 0) =>
        /\ OnDisk(DownloadPath)
        /\ audio_path = NoPath
        /\ ~Returned

\* the pitch detection of this run came out empty / its chord list is empty
Filtered == pc \in { "h_chordify", "h_return" } \/ InTrace("harmony")
Chordified == pc = "h_return" \/ InTrace("harmony")
EmptyDetection == Filtered /\ \A i \in 1..Len(kept) : kept[i] = <<>>
EmptyChordList == Chordified /\ analyzed_chords = <<>>

\* C7 as stated: with an empty pitch detection or an empty chord list,
\* extract_harmony does not return and the JSON file is not written.
C7_EmptyIsFailure ==
    (EmptyDetection \/ EmptyChordList) =>
        /\ ~InTrace("harmony")
        /\ json_writes = 0

\* C7 amended: neither is a failure.  extract_harmony raises only before the
\* pitch tracker has returned; with an empty detection or an empty chord
\* list it is able to return, returns the empty list, and the JSON document
\* of a completed run then holds an empty Harmony_Analysis.
C7_EmptyReturnsEmptyList ==
    /\ failed_stage = "harmony" => piptrack = <<>>
    /\ (pc = "h_return") => ENABLED HarmonyReturn
    /\ (EmptyDetection /\ Chordified) => analyzed_chords = <<>>
    /\ (EmptyChordList /\ InTrace("harmony")) => harmony_results = <<>>
    /\ (EmptyChordList /\ pc = "done") =>
          /\ results.Harmony_Analysis = <<>>
          /\ \A f \in JsonOfThisRun :
                f.content = { "Acoustic_Features", "Harmony_Analysis" }
          /\ JsonOfThisRun # {}

C7_Witness ==
    /\ pc = "done"
    /\ EmptyDetection
    /\ EmptyChordList
    /\ json_writes = 1
    /\ piptrack # <<>>

ResultsOfThisRun == { f \in fs : f.dir = "analysis_results" /\ f.run = run }

PlotsOfThisRun ==
    { k \in 1..4 : \E f \in ResultsOfThisRun : f.name = PlotFile(k) }

\* C8 as stated: a run that ends in a failure has left no file of its own in
\* analysis_results/.
C8_FailedRunLeavesNothing ==
    pc = "failed" => ResultsOfThisRun = {}

\* C8 amended: a run that fails in the Fetcher leaves nothing in
\* analysis_results/, and a run that fails before the JSON step does not
\* create or overwrite analysis_results.json; but the plots saved before the
\* failure stay (all four once the acoustic analysis is over), and a failure
\* inside json.dump leaves the file opened for writing, truncated.
C8_PlotsSurviveFailure ==
    pc = "failed" =>
        /\ failed_stage = "fetch" => ResultsOfThisRun = {}
        /\ failed_stage \in { "fetch", "acoustic", "harmony" } => JsonOfThisRun = {}
        /\ failed_stage = "acoustic" => PlotsOfThisRun = 1..(panel - 1)
        /\ failed_stage \in { "harmony", "write" } => PlotsOfThisRun = 1..4
        /\ failed_stage = "write" =>
              /\ JsonOfThisRun # {}
              /\ \A f \in JsonOfThisRun : f.content = {}

C8_Witness ==
    /\ pc = "failed"
    /\ failed_stage = "harmony"
    /\ run = 2
    /\ PlotsOfThisRun = 1..4

MagnitudeAboveThreshold(b) == b.magnitude > 10

\* C9 as stated: of every frame, exactly the candidates whose magnitude
\* exceeds 0.1 are kept.
C9_KeptIffMagnitudeAbove ==
    Filtered =>
        /\ Len(kept) = Len(piptrack)
        /\ \A i \in 1..Len(kept) :
              kept[i] = SelectSeq(piptrack[i], MagnitudeAboveThreshold)

PanelsUpTo(k) ==
    { CASE j = 1 -> "Waveform"
        [] j = 2 -> "Spectral Centroid"
        [] j = 3 -> "MFCCs"
        [] OTHER -> "Chroma Features" : j \in 1..k }

PlotContent(k) == { f.content : f \in { g \in fs : g.dir = "analysis_results"
                                                    /\ g.name = PlotFile(k) } }

\* C10: the k-th saved image holds exactly panels 1..k, so each image holds
\* every panel of the one before it and the fourth the whole figure; the
\* figure stays open while panels are drawn and is closed only once all four
\* images of the run are saved.
C10_CumulativeImages ==
    /\ \A k \in 1..4 : \A c \in PlotContent(k) : c = PanelsUpTo(k)
    /\ \A k \in 1..3 : \A c \in PlotContent(k) : \A d \in PlotContent(k + 1) :
          c \subseteq d /\ c # d
    /\ pc \in { "panel", "a_close" } => fig_open
    /\ pc = "panel" => PlotsOfThisRun = 1..(panel - 1)
    /\ InTrace("acoustic") => (~fig_open /\ PlotsOfThisRun = 1..4)

C10_Witness ==
    /\ InTrace("acoustic")
    /\ ~fig_open
    /\ PlotsOfThisRun = 1..4
    /\ PlotContent(4) = { PanelsUpTo(4) }
    /\ PlotContent(1) = { { "Waveform" } }

====
